---- MODULE Spec2Model ----
(***************************************************************************)
(* Webcam -> ComfyUI bridge: the job dispatch pipeline of the two server   *)
(* variants of the repository, src/app.js and src/unnamed/part_000         *)
(* (server.js "with Fixed Model Loading").  The variable `variant` says    *)
(* which of the two files is the running process.                          *)
(***************************************************************************)
EXTENDS Integers, Sequences, FiniteSets, TLC

VARIABLES
    variant,           \* "app" (src/app.js) or "server" (src/unnamed/part_000)
    workflowTemplate,  \* the module-level `let workflowTemplate`
    loadedTemplate,    \* history: the value workflowTemplate had after load
    now,               \* the clock (Date.now(), timer base), in seconds
    inputFile,         \* content of COMFYUI_INPUT_FOLDER/INPUT_FILENAME
    reqs,              \* the POST /save-frame requests handled so far
    tasks,             \* the deferred dispatch tasks, in setTimeout order
    patchCall,         \* the last direct call of updateWorkflowWithImage
    meshDir,           \* MODEL_MESH_FOLDER: whether it exists and its files
    indexCall          \* the last GET /models or GET /latest-model request in the
                       \* folder's present state

vars == <<variant, workflowTemplate, loadedTemplate, now, inputFile, reqs, tasks, patchCall,
         meshDir, indexCall>>

-----------------------------------------------------------------------------
(* Program constants *)

PROMPT_DELAY_SECONDS == 5
INPUT_FILENAME == "webcam_input.jpg"
OUTPUT_PREFIX == "webcam_3d_mesh"
MESH_FOLDER == "mesh"

Variants == {"app", "server"}

-----------------------------------------------------------------------------
(* JSON values of a workflow template *)

\* A property that is not there reads as undefined.
Undefined == "<undefined>"

\* JavaScript truthiness of the values used here: undefined and "" are falsy.
Truthy(v) == v \notin {Undefined, ""}

ClassTypes == {"LoadImage", "LoadImageMask", "ImageInput", "SaveImage", "SaveGLB", "KSampler"}

ImageValues == {Undefined, "", "example.png"}
PrefixValues == {Undefined, "", "ComfyUI"}
SeedValues == {Undefined, "42"}

\* node.inputs: absent, or an object with some of the keys image, filename_prefix, seed.
NoInputs == [present |-> FALSE, image |-> Undefined, filename_prefix |-> Undefined, seed |-> Undefined]

InputsValues ==
    {NoInputs} \cup
    [present : {TRUE}, image : ImageValues, filename_prefix : PrefixValues, seed : SeedValues]

\* A template entry that is JSON null.
NullNode == [isNull |-> TRUE, class_type |-> Undefined, inputs |-> NoInputs]

NodeValues ==
    {NullNode} \cup [isNull : {FALSE}, class_type : ClassTypes, inputs : InputsValues]

NodeIds == {"1", "2"}

\* A template is an object whose keys are node identifiers.
TemplatesOver(nodes) == UNION {[ids -> nodes] : ids \in SUBSET NodeIds}

AllTemplates == TemplatesOver(NodeValues)

AssetNames == {INPUT_FILENAME, "frame_2.jpg"}

\* Object.keys(workflowTemplate).length > 0
TemplateLoaded(template) == Cardinality(DOMAIN template) > 0

-----------------------------------------------------------------------------
(* updateWorkflowWithImage *)

\* JSON.parse(JSON.stringify(workflow)): a new object graph with the same keys
\* and, for the JSON values of a parsed template, the same values.
CloneInputs(inputs) ==
    IF inputs.present
    THEN [present |-> TRUE, image |-> inputs.image,
          filename_prefix |-> inputs.filename_prefix, seed |-> inputs.seed]
    ELSE NoInputs

CloneNode(node) ==
    IF node.isNull THEN NullNode
    ELSE [isNull |-> FALSE, class_type |-> node.class_type, inputs |-> CloneInputs(node.inputs)]

DeepClone(workflow) == [id \in DOMAIN workflow |-> CloneNode(workflow[id])]

\* Mutant: the test of node.inputs.image is missing, so the key is added.
SetImageUnguarded(node, value) ==
    IF node.inputs.present
    THEN [node EXCEPT !.inputs.image = value]
    ELSE node

\* if (node.inputs && node.inputs.image) node.inputs.image = value
SetImage(node, value) ==
    IF node.inputs.present /\ Truthy(node.inputs.image)
    THEN [node EXCEPT !.inputs.image = value]
    ELSE node

\* if (node.inputs && node.inputs.filename_prefix) node.inputs.filename_prefix = value
SetPrefix(node, value) ==
    IF node.inputs.present /\ Truthy(node.inputs.filename_prefix)
    THEN [node EXCEPT !.inputs.filename_prefix = value]
    ELSE node

\* Mutant: the image branches lose their class_type tests.
UpdateNodeAppAnyClass(node, imageName) ==
    LET n1 == SetImage(node, imageName)
        n2 == IF n1.class_type = "SaveImage" THEN SetPrefix(n1, OUTPUT_PREFIX) ELSE n1
        n3 == IF n2.class_type = "SaveGLB"
              THEN SetPrefix(n2, MESH_FOLDER \o "/" \o OUTPUT_PREFIX) ELSE n2
    IN n3

\* The loop body of src/app.js: four consecutive ifs on node.class_type.
UpdateNodeApp(node, imageName) ==
    LET n1 == IF node.class_type = "LoadImage" THEN SetImage(node, imageName) ELSE node
        n2 == IF n1.class_type = "SaveImage" THEN SetPrefix(n1, OUTPUT_PREFIX) ELSE n1
        n3 == IF n2.class_type = "SaveGLB"
              THEN SetPrefix(n2, MESH_FOLDER \o "/" \o OUTPUT_PREFIX) ELSE n2
        n4 == IF n3.class_type \in {"LoadImageMask", "ImageInput"}
              THEN SetImage(n3, imageName) ELSE n3
    IN n4

\* The loop body of src/unnamed/part_000: no SaveImage branch, SaveGLB gets the bare prefix.
UpdateNodeServer(node, imageName) ==
    LET n1 == IF node.class_type = "LoadImage" THEN SetImage(node, imageName) ELSE node
        n2 == IF n1.class_type = "SaveGLB" THEN SetPrefix(n1, OUTPUT_PREFIX) ELSE n1
        n3 == IF n2.class_type \in {"LoadImageMask", "ImageInput"}
              THEN SetImage(n2, imageName) ELSE n2
    IN n3

UpdateNode(v, node, imageName) ==
    IF v = "app" THEN UpdateNodeApp(node, imageName) ELSE UpdateNodeServer(node, imageName)

\* The for-in loop over the object `obj`: reading node.class_type of a null
\* entry throws a TypeError; the entries visited are rewritten in place.
LoopThrows(obj) == \E id \in DOMAIN obj : obj[id].isNull

LoopResult(v, obj, imageName) ==
    [id \in DOMAIN obj |->
        IF obj[id].isNull THEN obj[id] ELSE UpdateNode(v, obj[id], imageName)]

\* The call on the heap: `arg` is the object passed as workflow, `fresh` the
\* object JSON.parse returns.  The loop writes through updatedWorkflow.
\* Mutant: updatedWorkflow aliases the argument (no deep clone).
updateWorkflowWithImageInPlace(v, workflow, imageName) ==
    LET heap0 == [arg |-> workflow, fresh |-> DeepClone(workflow)]
        heap1 == [heap0 EXCEPT !.arg = LoopResult(v, heap0.arg, imageName)]
    IN [threw |-> LoopThrows(heap0.arg), value |-> heap1.arg, workflow |-> heap1.arg]

updateWorkflowWithImage(v, workflow, imageName) ==
    LET heap0 == [arg |-> workflow, fresh |-> DeepClone(workflow)]
        updatedWorkflow == "fresh"
        heap1 == [heap0 EXCEPT ![updatedWorkflow] = LoopResult(v, heap0[updatedWorkflow], imageName)]
    IN [threw |-> LoopThrows(heap0[updatedWorkflow]),
        value |-> heap1[updatedWorkflow],
        workflow |-> heap1.arg]

-----------------------------------------------------------------------------
(* The compute service as seen through fetch *)

\* MaxSaves: the requests handled in a run.  MaxClock: the last clock reading;
\* a request is taken while its timer can still run by then, so the captures
\* of a run overlap: each is saved before the timer of the first one is due.
MaxSaves == 2
MaxClock == 6

SYSTEM_STATS == "http://127.0.0.1:8188/system_stats"
PROMPT == "http://127.0.0.1:8188/prompt"

\* Response bodies the service may send: a queued-job document and a plain text.
JobBody == "{\"prompt_id\":\"p-1\",\"number\":7}"
TextBody == "invalid prompt"
ServiceBodies == {JobBody, TextBody}

StatusString(status) ==
    CASE status = 200 -> "200" [] status = 500 -> "500" [] status = 503 -> "503"

StatusText(status) ==
    CASE status = 200 -> "OK"
      [] status = 500 -> "Internal Server Error"
      [] status = 503 -> "Service Unavailable"

\* response.ok
Ok(status) == status >= 200 /\ status < 300

\* What a fetch settles to: a response, or a rejection for a connection that
\* failed (refused, reset).
NoResponse == [rejected |-> TRUE, status |-> 0, body |-> Undefined]

\* The rejection of a fetch whose `timeout` option expired.
TimedOut == [rejected |-> TRUE, status |-> 0, body |-> "<timeout>"]

\* Whether the variant's fetch calls are given the `timeout` option (5000 ms
\* for the health probe, 10000 ms for the POST in part_000; none in app.js,
\* where node-fetch then waits without limit).
HasTimeout(v) == v = "server"

\* A fetch that has not settled yet.
NotSettled == [rejected |-> FALSE, status |-> 0, body |-> Undefined]
Settled(outcome) == outcome # NotSettled

HealthOutcomes ==
    {NoResponse} \cup [rejected : {FALSE}, status : {200, 503}, body : {TextBody}]

PostOutcomes ==
    {NoResponse} \cup [rejected : {FALSE}, status : {200}, body : ServiceBodies]
                 \cup [rejected : {FALSE}, status : {500}, body : {TextBody}]

\* The message of the error a rejected fetch or body read carries.
FetchError(url) == <<"request to ", url, " failed">>
TimeoutError(url) == <<"network timeout at: ", url>>
RejectionMessage(outcome, url) ==
    IF outcome = TimedOut THEN TimeoutError(url) ELSE FetchError(url)
JsonError(url) == <<"invalid json response body at ", url>>
NullNodeError == <<"Cannot read properties of null (reading 'class_type')">>

\* JSON.parse of a response body: the parsed document, or a SyntaxError.
ParseJson(body) ==
    IF body = JobBody
    THEN [threw |-> FALSE, prompt_id |-> "p-1", number |-> "7"]
    ELSE [threw |-> TRUE, prompt_id |-> Undefined, number |-> Undefined]

\* `webcam_app_${Date.now()}`
ClientId(time) == <<"webcam_app_", time>>

-----------------------------------------------------------------------------
(* queueComfyUIPrompt: the result objects of its two return statements *)

NoResult == [returned |-> FALSE, success |-> FALSE, prompt_id |-> Undefined,
             number |-> Undefined, error |-> <<>>]

\* return { success: true, prompt_id: result.prompt_id, number: result.number }
SuccessResult(result) ==
    [returned |-> TRUE, success |-> TRUE, prompt_id |-> result.prompt_id,
     number |-> result.number, error |-> <<>>]

\* catch (error) { return { success: false, error: error.message } }
FailureResult(message) ==
    [returned |-> TRUE, success |-> FALSE, prompt_id |-> Undefined,
     number |-> Undefined, error |-> message]

\* throw new Error(...) after a non-ok health probe
HealthStatusMessage(v, status) ==
    IF v = "app"
    THEN <<"ComfyUI server not responding">>
    ELSE <<"ComfyUI server returned status: ", StatusString(status)>>

\* throw new Error(`ComfyUI API error: ...`) after a non-ok POST
ApiErrorMessage(v, status, errorText) ==
    IF v = "app"
    THEN <<"ComfyUI API error: ", StatusString(status), " ", StatusText(status)>>
    ELSE <<"ComfyUI API error: ", StatusString(status), " ", StatusText(status), " - ", errorText>>

\* The callback's if (result.success) ... else ...: which line it logs.
LogLine(result) == IF result.success THEN "queued" ELSE "failed"

-----------------------------------------------------------------------------
(* State of the running server *)

\* The templates the server is started with in the dispatch model.
MeshTemplate ==
    ("1" :> [isNull |-> FALSE, class_type |-> "LoadImage",
             inputs |-> [present |-> TRUE, image |-> "example.png",
                         filename_prefix |-> Undefined, seed |-> Undefined]]) @@
    ("2" :> [isNull |-> FALSE, class_type |-> "SaveGLB",
             inputs |-> [present |-> TRUE, image |-> Undefined,
                         filename_prefix |-> "ComfyUI", seed |-> Undefined]])

NullTemplate == ("1" :> NullNode)

EmptyTemplate == <<>>

ServerTemplates == {EmptyTemplate, MeshTemplate, NullTemplate}

\* req.body.imageData: missing, not a string, a data URL.
NotAString == "<number>"
DataUrlPrefix == "data:image/jpeg;base64,"
ImageDataValues == {Undefined, NotAString, DataUrlPrefix \o "AAAA"}

\* imageData.replace(/^data:image\/jpeg;base64,/, '')
StripPrefix(imageData) ==
    IF imageData = DataUrlPrefix \o "AAAA" THEN "AAAA" ELSE imageData

\* Buffer.from(base64Data, 'base64')
Base64Decode(base64Data) ==
    CASE base64Data = "AAAA" -> <<0, 0, 0>>
      [] base64Data = "BBBB" -> <<4, 16, 65>>
      [] OTHER -> <<>>

\* No direct call of updateWorkflowWithImage has been made.
NoCall == [done |-> FALSE, workflow |-> <<>>, imageName |-> Undefined,
           threw |-> FALSE, value |-> <<>>]

NoFile == [exists |-> FALSE, content |-> <<>>, writer |-> 0]

NewTask(req, time) ==
    [req |-> req, due |-> time + PROMPT_DELAY_SECONDS, pc |-> "timer",
     healthProbes |-> 0, posts |-> 0, client_id |-> <<>>, prompt |-> <<>>,
     assetAtPost |-> NoFile, healthCheck |-> NotSettled, response |-> NotSettled,
     result |-> NoResult, logged |-> <<>>]

-----------------------------------------------------------------------------
(* The artifact index of src/unnamed/part_000: findGLBFiles, findLatestGLBFile *)

MaxMtime == 3

MODEL_MESH_FOLDER == "public/models/mesh"

\* A file name is its stem and its last four characters.
FileNames ==
    <<[stem |-> "a", ext |-> ".glb"], [stem |-> "b", ext |-> ".GLB"],
      [stem |-> "c", ext |-> ".txt"], [stem |-> "d", ext |-> ".Glb"]>>

NameSet == {FileNames[i] : i \in DOMAIN FileNames}

\* The folder absent, and present without files.  files maps the names
\* present to their mtime.
AbsentDir == [exists |-> FALSE, files |-> <<>>]
EmptyDir == [exists |-> TRUE, files |-> <<>>]

\* Mutant: the extension is compared as written.
ToLowerCaseIdentity(name) == name

\* String.prototype.toLowerCase on the part of a name that has letter case.
ToLowerCase(name) ==
    [name EXCEPT !.ext = CASE name.ext = ".GLB" -> ".glb"
                           [] name.ext = ".Glb" -> ".glb"
                           [] name.ext = ".TXT" -> ".txt"
                           [] OTHER -> name.ext]

EndsWith(name, suffix) == name.ext = suffix

\* fs.readdirSync: the names present, in name order (libuv sorts the entries).
ReadDir(dir) == SelectSeq(FileNames, LAMBDA n : n \in DOMAIN dir.files)

\* One element of the listing, from the name and its fs.statSync result
\* (stats.size is left out).
Artifact(dir, file) ==
    [name |-> file, path |-> <<MODEL_MESH_FOLDER, file>>, url |-> <<"/mesh/", file>>,
     created |-> dir.files[file], modified |-> dir.files[file]]

\* Mutant: oldest first.
CompareOldestFirst(a, b) == a.created - b.created

\* The comparator given to Array.prototype.sort.
Compare(a, b) == b.created - a.created

\* Array.prototype.sort with Compare: a stable sort (insertion of each element
\* after those that do not compare greater than it).
RECURSIVE InsertSorted(_, _)
InsertSorted(sorted, x) ==
    IF sorted = <<>> THEN <<x>>
    ELSE IF Compare(Head(sorted), x) <= 0
         THEN <<Head(sorted)>> \o InsertSorted(Tail(sorted), x)
         ELSE <<x>> \o sorted

RECURSIVE Sort(_)
Sort(items) ==
    IF items = <<>> THEN <<>>
    ELSE InsertSorted(Sort(SubSeq(items, 1, Len(items) - 1)), items[Len(items)])

\* Mutant: no existence check and no try/catch: a missing folder or a failed
\* readdirSync/statSync propagates to the caller.
findGLBFilesUnguarded(dir, readdirOk, statFailing) ==
    LET matching == SelectSeq(ReadDir(dir), LAMBDA file : EndsWith(ToLowerCase(file), ".glb"))
    IN IF ~dir.exists \/ ~readdirOk \/ \E i \in DOMAIN matching : matching[i] \in statFailing
       THEN [threw |-> TRUE, files |-> <<>>]
       ELSE [threw |-> FALSE,
             files |-> Sort([i \in DOMAIN matching |-> Artifact(dir, matching[i])])]

\* Mutant: statSync is caught per file, and a file it fails on is left out.
findGLBFilesSkipsFailing(dir, readdirOk, statFailing) ==
    IF ~dir.exists THEN [threw |-> FALSE, files |-> <<>>]
    ELSE IF ~readdirOk THEN [threw |-> FALSE, files |-> <<>>]
    ELSE LET matching == SelectSeq(ReadDir(dir),
                                   LAMBDA file : EndsWith(ToLowerCase(file), ".glb")
                                                    /\ file \notin statFailing)
         IN [threw |-> FALSE,
             files |-> Sort([i \in DOMAIN matching |-> Artifact(dir, matching[i])])]

\* findGLBFiles().  readdirOk says whether fs.readdirSync returns; statFailing
\* is the set of names on which fs.statSync throws.  threw is whether the call
\* raises to its caller.
findGLBFiles(dir, readdirOk, statFailing) ==
    IF ~dir.exists THEN [threw |-> FALSE, files |-> <<>>]
    ELSE IF ~readdirOk THEN [threw |-> FALSE, files |-> <<>>]
    ELSE LET matching == SelectSeq(ReadDir(dir),
                                   LAMBDA file : EndsWith(ToLowerCase(file), ".glb"))
         IN IF \E i \in DOMAIN matching : matching[i] \in statFailing
            THEN [threw |-> FALSE, files |-> <<>>]
            ELSE [threw |-> FALSE,
                  files |-> Sort([i \in DOMAIN matching |-> Artifact(dir, matching[i])])]

\* An artifact or null: the sequence of at most one artifact.
Null == <<>>

\* Mutant: the last element of the listing.
findLatestGLBFileLast(scan) ==
    [threw |-> scan.threw,
     value |-> IF Len(scan.files) > 0 THEN <<scan.files[Len(scan.files)]>> ELSE Null]

\* findLatestGLBFile(), given the result of its findGLBFiles() call.
findLatestGLBFile(scan) ==
    [threw |-> scan.threw,
     value |-> IF Len(scan.files) > 0 THEN <<scan.files[1]>> ELSE Null]

\* The answer of an index endpoint: its status and its payload.  fields names
\* the payload's fields; one that is not among them holds a filler.
IndexResponse(status, fields, success, models, model, text) ==
    [status |-> status, fields |-> fields, success |-> success,
     models |-> models, count |-> Len(models), model |-> model,
     message |-> IF "message" \in fields THEN text ELSE "",
     error |-> IF "error" \in fields THEN text ELSE ""]

\* app.get('/models')
ModelsHandler(scan) ==
    IF scan.threw
    THEN IndexResponse(500, {"success", "error"}, FALSE, <<>>, Null, "Failed to list models")
    ELSE IndexResponse(200, {"success", "models", "count", "mesh_folder"}, TRUE,
                       scan.files, Null, "")

\* app.get('/latest-model')
LatestModelHandler(scan) ==
    LET latestModel == findLatestGLBFile(scan)
    IN IF latestModel.threw
       THEN IndexResponse(500, {"success", "error"}, FALSE, <<>>, Null,
                          "Failed to check for models")
       ELSE IF latestModel.value # Null
       THEN IndexResponse(200, {"success", "model"}, TRUE, <<>>, latestModel.value, "")
       ELSE IndexResponse(200, {"success", "message"}, FALSE, <<>>, Null,
                          "No GLB models found")

\* What is remembered of the call before the last one.
NoPrevious == [done |-> FALSE, failed |-> FALSE, names |-> {}]

\* No index endpoint has been called since the folder last changed.
NoIndexCall ==
    [kind |-> "none", failed |-> FALSE, files |-> <<>>,
     response |-> IndexResponse(0, {}, FALSE, <<>>, Null, ""),
     previous |-> NoPrevious]

Init ==
    /\ variant \in Variants
    /\ workflowTemplate \in ServerTemplates
    /\ loadedTemplate = workflowTemplate
    /\ now = 0
    /\ inputFile = NoFile
    /\ reqs = <<>>
    /\ tasks = <<>>
    /\ patchCall = NoCall
    /\ meshDir = EmptyDir
    /\ indexCall = NoIndexCall


-----------------------------------------------------------------------------
(* app.post('/save-frame') *)

\* res.json / res.status(...).json: the response as the client receives it.
\* success and comfyui_enabled are FALSE where the payload has no such field.
Response(status, success, enabled, error) ==
    [status |-> status, success |-> success, comfyui_enabled |-> enabled, error |-> error]

\* How fs.writeFileSync(filePath, buffer) ends: it returns with the file holding
\* the buffer; it throws before the file is opened (no permission, no folder)
\* and the file is as it was; or it throws after opening the file for writing
\* (disk full), which has emptied it.
WriteOutcomes == {"ok", "refused", "truncated"}

\* The asset file after a handler call that ended in the catch block.
AfterFailedWrite(file, imageData, write, reqIndex) ==
    IF imageData # NotAString /\ write = "truncated"
    THEN [exists |-> TRUE, content |-> <<>>, writer |-> reqIndex]
    ELSE file

\* Mutant: setTimeout is called whether or not a template is loaded.
SaveFrameHandlerAlwaysSchedules(template, file, imageData, write, reqIndex) ==
    IF ~Truthy(imageData)
    THEN [responses |-> <<Response(400, FALSE, FALSE, "Missing imageData")>>,
          file |-> file, wrote |-> FALSE, writeFailed |-> FALSE, scheduled |-> FALSE]
    ELSE IF imageData = NotAString \/ write # "ok"
    THEN [responses |-> <<Response(500, FALSE, FALSE, "Failed to save frame")>>,
          file |-> AfterFailedWrite(file, imageData, write, reqIndex), wrote |-> FALSE,
          writeFailed |-> imageData # NotAString,
          scheduled |-> FALSE]
    ELSE [responses |-> <<Response(200, TRUE, TemplateLoaded(template), "")>>,
          file |-> [exists |-> TRUE, content |-> Base64Decode(StripPrefix(imageData)),
                    writer |-> reqIndex],
          wrote |-> TRUE, writeFailed |-> FALSE,
          scheduled |-> TRUE]

\* Mutant: the handler awaits the dispatch and answers only after it.
SaveFrameHandlerAnswersLater(template, file, imageData, write, reqIndex) ==
    IF ~Truthy(imageData)
    THEN [responses |-> <<Response(400, FALSE, FALSE, "Missing imageData")>>,
          file |-> file, wrote |-> FALSE, writeFailed |-> FALSE, scheduled |-> FALSE]
    ELSE IF imageData = NotAString \/ write # "ok"
    THEN [responses |-> <<Response(500, FALSE, FALSE, "Failed to save frame")>>,
          file |-> AfterFailedWrite(file, imageData, write, reqIndex), wrote |-> FALSE,
          writeFailed |-> imageData # NotAString,
          scheduled |-> FALSE]
    ELSE [responses |-> IF TemplateLoaded(template) THEN <<>>
                        ELSE <<Response(200, TRUE, FALSE, "")>>,
          file |-> [exists |-> TRUE, content |-> Base64Decode(StripPrefix(imageData)),
                    writer |-> reqIndex],
          wrote |-> TRUE, writeFailed |-> FALSE,
          scheduled |-> TemplateLoaded(template)]

\* Mutant: the timer is registered before imageData is validated.
SaveFrameHandlerSchedulesFirst(template, file, imageData, write, reqIndex) ==
    IF ~Truthy(imageData)
    THEN [responses |-> <<Response(400, FALSE, FALSE, "Missing imageData")>>,
          file |-> file, wrote |-> FALSE, writeFailed |-> FALSE,
          scheduled |-> TemplateLoaded(template)]
    ELSE IF imageData = NotAString \/ write # "ok"
    THEN [responses |-> <<Response(500, FALSE, FALSE, "Failed to save frame")>>,
          file |-> AfterFailedWrite(file, imageData, write, reqIndex), wrote |-> FALSE,
          writeFailed |-> imageData # NotAString,
          scheduled |-> FALSE]
    ELSE [responses |-> <<Response(200, TRUE, TemplateLoaded(template), "")>>,
          file |-> [exists |-> TRUE, content |-> Base64Decode(StripPrefix(imageData)),
                    writer |-> reqIndex],
          wrote |-> TRUE, writeFailed |-> FALSE,
          scheduled |-> TemplateLoaded(template)]

\* Mutant: the write is not inside the try block's guard of the timer: a failed
\* write is answered 500 and the timer is registered all the same.
SaveFrameHandlerSchedulesOnFailure(template, file, imageData, write, reqIndex) ==
    IF ~Truthy(imageData)
    THEN [responses |-> <<Response(400, FALSE, FALSE, "Missing imageData")>>,
          file |-> file, wrote |-> FALSE, writeFailed |-> FALSE, scheduled |-> FALSE]
    ELSE IF imageData = NotAString \/ write # "ok"
    THEN [responses |-> <<Response(500, FALSE, FALSE, "Failed to save frame")>>,
          file |-> AfterFailedWrite(file, imageData, write, reqIndex), wrote |-> FALSE,
          writeFailed |-> imageData # NotAString,
          scheduled |-> TemplateLoaded(template)]
    ELSE [responses |-> <<Response(200, TRUE, TemplateLoaded(template), "")>>,
          file |-> [exists |-> TRUE, content |-> Base64Decode(StripPrefix(imageData)),
                    writer |-> reqIndex],
          wrote |-> TRUE, writeFailed |-> FALSE,
          scheduled |-> TemplateLoaded(template)]

\* Mutant: the asset file is written only when it does not exist yet.
SaveFrameHandlerKeepsFirst(template, file, imageData, write, reqIndex) ==
    IF ~Truthy(imageData)
    THEN [responses |-> <<Response(400, FALSE, FALSE, "Missing imageData")>>,
          file |-> file, wrote |-> FALSE, writeFailed |-> FALSE, scheduled |-> FALSE]
    ELSE IF imageData = NotAString \/ write # "ok"
    THEN [responses |-> <<Response(500, FALSE, FALSE, "Failed to save frame")>>,
          file |-> AfterFailedWrite(file, imageData, write, reqIndex), wrote |-> FALSE,
          writeFailed |-> imageData # NotAString,
          scheduled |-> FALSE]
    ELSE [responses |-> <<Response(200, TRUE, TemplateLoaded(template), "")>>,
          file |-> IF file.exists THEN file
                   ELSE [exists |-> TRUE,
                         content |-> Base64Decode(StripPrefix(imageData)),
                         writer |-> reqIndex],
          wrote |-> TRUE, writeFailed |-> FALSE,
          scheduled |-> TemplateLoaded(template)]

\* The handler from its first line to its last, for one request: the responses
\* it sends, the asset file it leaves, and whether it called setTimeout.
\* write says how fs.writeFileSync ends (WriteOutcomes).
SaveFrameHandler(template, file, imageData, write, reqIndex) ==
    IF ~Truthy(imageData)
    THEN [responses |-> <<Response(400, FALSE, FALSE, "Missing imageData")>>,
          file |-> file, wrote |-> FALSE, writeFailed |-> FALSE, scheduled |-> FALSE]
    ELSE IF imageData = NotAString \/ write # "ok"
    THEN \* imageData.replace or fs.writeFileSync throws: the catch block answers
         [responses |-> <<Response(500, FALSE, FALSE, "Failed to save frame")>>,
          file |-> AfterFailedWrite(file, imageData, write, reqIndex), wrote |-> FALSE,
          writeFailed |-> imageData # NotAString,
          scheduled |-> FALSE]
    ELSE [responses |-> <<Response(200, TRUE, TemplateLoaded(template), "")>>,
          file |-> [exists |-> TRUE, content |-> Base64Decode(StripPrefix(imageData)),
                    writer |-> reqIndex],
          wrote |-> TRUE, writeFailed |-> FALSE,
          scheduled |-> TemplateLoaded(template)]

\* Mutant: a new capture clears the timers that are still pending.
ScheduleReplacing(pending, reqIndex, time) ==
    Append(SelectSeq(pending, LAMBDA k : k.pc # "timer"), NewTask(reqIndex, time))

\* setTimeout(callback, PROMPT_DELAY_SECONDS * 1000): one more timer, after those
\* already registered.
Schedule(pending, reqIndex, time) == Append(pending, NewTask(reqIndex, time))

SaveFrame(imageData, write) ==
    /\ Len(reqs) < MaxSaves
    /\ now + PROMPT_DELAY_SECONDS <= MaxClock
    /\ LET reqIndex == Len(reqs) + 1
           h == SaveFrameHandler(workflowTemplate, inputFile, imageData, write, reqIndex)
       IN /\ reqs' = Append(reqs, [imageData |-> imageData,
                                   responses |-> h.responses, wrote |-> h.wrote,
                                   writeFailed |-> h.writeFailed,
                                   scheduled |-> h.scheduled])
          /\ inputFile' = h.file
          /\ tasks' = IF h.scheduled THEN Schedule(tasks, reqIndex, now) ELSE tasks
    /\ UNCHANGED <<variant, workflowTemplate, loadedTemplate, now, patchCall, meshDir, indexCall>>

-----------------------------------------------------------------------------
(* The deferred task: setTimeout(async () => { ... queueComfyUIPrompt ... }) *)

\* The clock advances.  Only setTimeout (a pending timer) and Date.now() (read
\* when a health probe settles) look at it, and a later request only adds the
\* delay to it, so it is advanced while one of the two readers is waiting.
Tick ==
    /\ now < MaxClock
    /\ \E t \in DOMAIN tasks : tasks[t].pc \in {"timer", "health"}
    /\ now' = now + 1
    /\ UNCHANGED <<variant, workflowTemplate, loadedTemplate, inputFile, reqs, tasks, patchCall, meshDir, indexCall>>

\* Mutant: a failed attempt is followed by a second one.
FinishOrRetry(task, result) ==
    IF ~result.success /\ task.healthProbes < 2
    THEN [task EXCEPT !.pc = "health", !.healthProbes = task.healthProbes + 1]
    ELSE [task EXCEPT !.pc = "done", !.result = result,
                      !.logged = Append(task.logged, LogLine(result))]

\* queueComfyUIPrompt returns `result`; the callback logs one of its two lines.
Finish(task, result) ==
    [task EXCEPT !.pc = "done", !.result = result,
                 !.logged = Append(task.logged, LogLine(result))]

\* Mutant: the callback returns without calling queueComfyUIPrompt.
StartDispatchSkipsSubmit(task) ==
    [task EXCEPT !.pc = "done", !.logged = Append(task.logged, "failed")]

\* The timer expires and the callback runs up to its first await: the health probe.
StartDispatch(task) ==
    [task EXCEPT !.pc = "health", !.healthProbes = task.healthProbes + 1]

TimerFire(t) ==
    /\ t \in DOMAIN tasks
    /\ tasks[t].pc = "timer"
    /\ now >= tasks[t].due
    /\ \A u \in 1..(t - 1) : tasks[u].pc # "timer"
    /\ tasks' = [tasks EXCEPT ![t] = StartDispatch(tasks[t])]
    /\ UNCHANGED <<variant, workflowTemplate, loadedTemplate, now, inputFile, reqs, patchCall, meshDir, indexCall>>

\* Mutant: the test of healthCheck.ok is missing.
AfterHealthNoGate(v, task, outcome, workflow, filename, time, file) ==
    LET probed == [task EXCEPT !.healthCheck = outcome]
    IN IF outcome.rejected
       THEN [task |-> [probed EXCEPT !.pc = "done",
                                     !.result = FailureResult(
                                                    RejectionMessage(outcome, SYSTEM_STATS)),
                                     !.logged = Append(task.logged, "failed")],
             workflow |-> workflow]
       ELSE LET out == updateWorkflowWithImage(v, workflow, filename)
            IN [task |-> [probed EXCEPT !.pc = "post", !.posts = task.posts + 1,
                                        !.client_id = ClientId(time),
                                        !.prompt = out.value, !.assetAtPost = file],
                workflow |-> out.workflow]

\* Mutant: updateWorkflowWithImage is called outside the try block, so its
\* TypeError rejects the call and the callback logs nothing.
AfterHealthPatchOutsideTry(v, task, outcome, workflow, filename, time, file) ==
    LET probed == [task EXCEPT !.healthCheck = outcome]
    IN IF outcome.rejected
       THEN [task |-> Finish(probed, FailureResult(RejectionMessage(outcome, SYSTEM_STATS))),
             workflow |-> workflow]
       ELSE IF ~Ok(outcome.status)
       THEN [task |-> Finish(probed, FailureResult(HealthStatusMessage(v, outcome.status))),
             workflow |-> workflow]
       ELSE LET out == updateWorkflowWithImage(v, workflow, filename)
            IN IF out.threw
               THEN [task |-> [probed EXCEPT !.pc = "rejected"],
                     workflow |-> out.workflow]
               ELSE [task |-> [probed EXCEPT !.pc = "post", !.posts = task.posts + 1,
                                             !.client_id = ClientId(time),
                                             !.prompt = out.value, !.assetAtPost = file],
                     workflow |-> out.workflow]

\* queueComfyUIPrompt from the settled health probe to its next await or return.
\* Yields the task and the object passed as `workflow` as the call leaves it.
AfterHealth(v, task, outcome, workflow, filename, time, file) ==
    LET probed == [task EXCEPT !.healthCheck = outcome]
    IN IF outcome.rejected
       THEN [task |-> Finish(probed, FailureResult(RejectionMessage(outcome, SYSTEM_STATS))),
             workflow |-> workflow]
       ELSE IF ~Ok(outcome.status)
       THEN [task |-> Finish(probed, FailureResult(HealthStatusMessage(v, outcome.status))),
             workflow |-> workflow]
       ELSE LET out == updateWorkflowWithImage(v, workflow, filename)
            IN IF out.threw
               THEN [task |-> Finish(probed, FailureResult(NullNodeError)),
                     workflow |-> out.workflow]
               ELSE [task |-> [probed EXCEPT !.pc = "post", !.posts = task.posts + 1,
                                             !.client_id = ClientId(time),
                                             !.prompt = out.value, !.assetAtPost = file],
                     workflow |-> out.workflow]

HealthSettled(t, outcome) ==
    /\ t \in DOMAIN tasks
    /\ tasks[t].pc = "health"
    /\ LET a == AfterHealth(variant, tasks[t], outcome, workflowTemplate, INPUT_FILENAME,
                            now, inputFile)
       IN /\ tasks' = [tasks EXCEPT ![t] = a.task]
          /\ workflowTemplate' = a.workflow
    /\ UNCHANGED <<variant, loadedTemplate, now, inputFile, reqs, patchCall, meshDir, indexCall>>

\* Mutant: a transport failure of the POST is reported as the server not
\* responding, the error of a failed health probe.
AfterPostReportsNotResponding(v, task, outcome) ==
    LET posted == [task EXCEPT !.response = outcome]
    IN IF outcome.rejected
       THEN Finish(posted, FailureResult(HealthStatusMessage(v, 503)))
       ELSE IF ~Ok(outcome.status)
       THEN IF v = "app"
            THEN Finish(posted, FailureResult(ApiErrorMessage(v, outcome.status, Undefined)))
            ELSE [posted EXCEPT !.pc = "text"]
       ELSE [posted EXCEPT !.pc = "json"]

\* queueComfyUIPrompt from the settled POST to its next await or return.
AfterPost(v, task, outcome) ==
    LET posted == [task EXCEPT !.response = outcome]
    IN IF outcome.rejected
       THEN Finish(posted, FailureResult(RejectionMessage(outcome, PROMPT)))
       ELSE IF ~Ok(outcome.status)
       THEN IF v = "app"
            THEN Finish(posted, FailureResult(ApiErrorMessage(v, outcome.status, Undefined)))
            ELSE [posted EXCEPT !.pc = "text"]
       ELSE [posted EXCEPT !.pc = "json"]

PostSettled(t, outcome) ==
    /\ t \in DOMAIN tasks
    /\ tasks[t].pc = "post"
    /\ tasks' = [tasks EXCEPT ![t] = AfterPost(variant, tasks[t], outcome)]
    /\ UNCHANGED <<variant, workflowTemplate, loadedTemplate, now, inputFile, reqs, patchCall, meshDir, indexCall>>

\* Mutant: the parsed body is not needed for the success result.
AfterBodyIgnoresParse(v, task) ==
    IF task.pc = "text"
    THEN Finish(task, FailureResult(
             ApiErrorMessage(v, task.response.status, task.response.body)))
    ELSE Finish(task, SuccessResult(ParseJson(task.response.body)))

\* queueComfyUIPrompt from the settled body read (response.text() or
\* response.json()) to its return; the body arrives whole.
AfterBody(v, task) ==
    IF task.pc = "text"
    THEN Finish(task, FailureResult(
             ApiErrorMessage(v, task.response.status, task.response.body)))
    ELSE LET result == ParseJson(task.response.body)
         IN IF result.threw
            THEN Finish(task, FailureResult(JsonError(PROMPT)))
            ELSE Finish(task, SuccessResult(result))

BodySettled(t) ==
    /\ t \in DOMAIN tasks
    /\ tasks[t].pc \in {"text", "json"}
    /\ tasks' = [tasks EXCEPT ![t] = AfterBody(variant, tasks[t])]
    /\ UNCHANGED <<variant, workflowTemplate, loadedTemplate, now, inputFile, reqs, patchCall, meshDir, indexCall>>

\* The `timeout` option of a pending fetch expires: node-fetch rejects it.
\* How long that takes is not followed; without the option it never happens.
FetchTimeout(t) ==
    /\ HasTimeout(variant)
    /\ \/ HealthSettled(t, TimedOut)
       \/ PostSettled(t, TimedOut)

Next ==
    \/ \E imageData \in ImageDataValues, write \in WriteOutcomes : SaveFrame(imageData, write)
    \/ Tick
    \/ \E t \in 1..MaxSaves : TimerFire(t)
    \/ \E t \in 1..MaxSaves, outcome \in HealthOutcomes : HealthSettled(t, outcome)
    \/ \E t \in 1..MaxSaves, outcome \in PostOutcomes : PostSettled(t, outcome)
    \/ \E t \in 1..MaxSaves : BodySettled(t)
    \/ \E t \in 1..MaxSaves : FetchTimeout(t)

Spec == Init /\ [][Next]_vars

-----------------------------------------------------------------------------
(* The patcher on its own: every template, every asset name *)

InitPatch ==
    /\ variant \in Variants
    /\ workflowTemplate \in AllTemplates
    /\ loadedTemplate = workflowTemplate
    /\ now = 0
    /\ inputFile = NoFile
    /\ reqs = <<>>
    /\ tasks = <<>>
    /\ patchCall = NoCall
    /\ meshDir = EmptyDir
    /\ indexCall = NoIndexCall

PatchCall(imageName) ==
    LET out == updateWorkflowWithImage(variant, workflowTemplate, imageName)
    IN /\ patchCall' = [done |-> TRUE, workflow |-> workflowTemplate, imageName |-> imageName,
                        threw |-> out.threw, value |-> out.value]
       /\ workflowTemplate' = out.workflow
       /\ UNCHANGED <<variant, loadedTemplate, now, inputFile, reqs, tasks, meshDir, indexCall>>

NextPatch == \E imageName \in AssetNames : PatchCall(imageName)

PatchSpec == InitPatch /\ [][NextPatch]_vars


\* Fairness of the event loop: time passes and a timer that is due runs.
FairSpec ==
    /\ Init /\ [][Next]_vars
    /\ WF_vars(Tick)
    /\ \A t \in 1..MaxSaves : WF_vars(TimerFire(t))

-----------------------------------------------------------------------------
(* The artifact index endpoints of src/unnamed/part_000 and the compute  *)
(* service writing into MODEL_MESH_FOLDER.                                *)

serverVars ==
    <<variant, workflowTemplate, loadedTemplate, now, inputFile, reqs, tasks, patchCall>>

\* The startup loop over dirsToCheck: mkdirSync creates the folder, or fails
\* and leaves it absent.
InitIndex ==
    /\ variant = "server"
    /\ workflowTemplate = EmptyTemplate
    /\ loadedTemplate = workflowTemplate
    /\ now = 0
    /\ inputFile = NoFile
    /\ reqs = <<>>
    /\ tasks = <<>>
    /\ patchCall = NoCall
    /\ meshDir \in {AbsentDir, EmptyDir}
    /\ indexCall = NoIndexCall

\* What is remembered of a request once the folder changes or the next
\* request is made: whether a scan step failed, and the names it listed.
Remembered(call) ==
    IF call.kind = "none" THEN call.previous
    ELSE [done |-> TRUE, failed |-> call.failed,
          names |-> {call.files[i].name : i \in DOMAIN call.files}]

\* indexCall is the last request for as long as the folder is as that
\* request found it; after a change only Remembered is kept of it.
Outdated(call) == [NoIndexCall EXCEPT !.previous = Remembered(call)]

\* The folder is created from outside (the compute service saving a mesh).
MakeDir ==
    /\ ~meshDir.exists
    /\ meshDir' = EmptyDir
    /\ indexCall' = Outdated(indexCall)
    /\ UNCHANGED serverVars

\* The compute service writes a file, new or over an existing one.
AddFile(name, mtime) ==
    /\ meshDir.exists
    /\ meshDir' = [meshDir EXCEPT !.files = (name :> mtime) @@ @]
    /\ meshDir' # meshDir
    /\ indexCall' = Outdated(indexCall)
    /\ UNCHANGED serverVars

RemoveFile(name) ==
    /\ name \in DOMAIN meshDir.files
    /\ meshDir' = [meshDir EXCEPT
                      !.files = [n \in (DOMAIN @) \ {name} |-> @[n]]]
    /\ indexCall' = Outdated(indexCall)
    /\ UNCHANGED serverVars

\* The failures one scan can meet: readdirSync throws, or statSync throws on
\* one of the names readdirSync returned: the file is a link to nothing, or it
\* was removed after readdirSync returned its name (vanished).
ScanFailures ==
    {[readdirOk |-> TRUE, statFailing |-> {}, vanished |-> FALSE]} \cup
    (IF meshDir.exists
     THEN {[readdirOk |-> FALSE, statFailing |-> {}, vanished |-> FALSE]} ELSE {}) \cup
    {[readdirOk |-> TRUE, statFailing |-> {n}, vanished |-> v] :
        n \in {m \in DOMAIN meshDir.files : EndsWith(ToLowerCase(m), ".glb")},
        v \in BOOLEAN}

\* The folder when the scan returns: without the file that was removed under it.
AfterScan(dir, failure) ==
    IF failure.vanished
    THEN [dir EXCEPT !.files = [n \in (DOMAIN @) \ failure.statFailing |-> @[n]]]
    ELSE dir

\* One GET /models request, handled from first line to last.
GetModels(failure) ==
    /\ LET scan == findGLBFiles(meshDir, failure.readdirOk, failure.statFailing)
       IN indexCall' = [kind |-> "models",
                        failed |-> ~failure.readdirOk \/ failure.statFailing # {},
                        files |-> scan.files,
                        response |-> ModelsHandler(scan),
                        previous |-> Remembered(indexCall)]
    /\ meshDir' = AfterScan(meshDir, failure)
    /\ UNCHANGED serverVars

\* One GET /latest-model request, handled from first line to last.
GetLatestModel(failure) ==
    /\ LET scan == findGLBFiles(meshDir, failure.readdirOk, failure.statFailing)
       IN indexCall' = [kind |-> "latest",
                        failed |-> ~failure.readdirOk \/ failure.statFailing # {},
                        files |-> scan.files,
                        response |-> LatestModelHandler(scan),
                        previous |-> Remembered(indexCall)]
    /\ meshDir' = AfterScan(meshDir, failure)
    /\ UNCHANGED serverVars

NextIndex ==
    \/ MakeDir
    \/ \E name \in NameSet, mtime \in 1..MaxMtime : AddFile(name, mtime)
    \/ \E name \in NameSet : RemoveFile(name)
    \/ \E failure \in ScanFailures : GetModels(failure)
    \/ \E failure \in ScanFailures : GetLatestModel(failure)

IndexSpec == InitIndex /\ [][NextIndex]_vars

-----------------------------------------------------------------------------
(* Properties *)

ImageRoles == {"LoadImage", "LoadImageMask", "ImageInput"}
SaveRoles == {"SaveImage", "SaveGLB"}

\* The result carries the error of the failed health probe.
IsServiceUnavailable(v, task) ==
    IF task.healthCheck.rejected
    THEN task.result.error = RejectionMessage(task.healthCheck, SYSTEM_STATS)
    ELSE task.result.error = HealthStatusMessage(v, task.healthCheck.status)

HealthFailed(task) ==
    Settled(task.healthCheck) /\ (task.healthCheck.rejected \/ ~Ok(task.healthCheck.status))

IsValidImageData(imageData) == Truthy(imageData) /\ imageData # NotAString

\* C1: a failed health probe (non-success status or rejected fetch) ends the
\* call with a not-accepted result carrying the health probe's error, and no
\* POST /prompt; a POST is issued only after the call's own probe succeeded.
C1_HealthGated ==
    \A t \in DOMAIN tasks :
        LET k == tasks[t]
        IN /\ k.posts > 0 =>
                Settled(k.healthCheck) /\ ~k.healthCheck.rejected /\ Ok(k.healthCheck.status)
           /\ HealthFailed(k) =>
                /\ k.pc = "done" /\ k.result.returned /\ ~k.result.success
                /\ IsServiceUnavailable(variant, k)
                /\ k.posts = 0 /\ ~Settled(k.response)

C1_Witness ==
    \E t, u \in DOMAIN tasks :
        /\ tasks[t].pc = "done" /\ tasks[t].healthCheck.status = 503
        /\ tasks[u].pc = "done" /\ tasks[u].healthCheck.rejected

\* C2: the template is, in every reachable state, the one loaded at start.
C2_TemplateUnchanged == workflowTemplate = loadedTemplate

C2_Witness ==
    \E t \in DOMAIN tasks :
        /\ tasks[t].pc = "post"
        /\ tasks[t].prompt # loadedTemplate
        /\ Len(reqs) = 2

\* C3: a completed patch keeps the node identifiers, leaves every node of an
\* unrecognized class_type as it was, and in a recognized node changes at most
\* inputs.image (image roles) or inputs.filename_prefix (save roles).
C3_PatchLocality ==
    (patchCall.done /\ ~patchCall.threw) =>
        /\ DOMAIN patchCall.value = DOMAIN patchCall.workflow
        /\ \A id \in DOMAIN patchCall.workflow :
              LET old == patchCall.workflow[id]
                  new == patchCall.value[id]
              IN /\ old.class_type \notin (ImageRoles \cup SaveRoles) => new = old
                 /\ old.class_type \in ImageRoles =>
                        new = [old EXCEPT !.inputs.image = new.inputs.image]
                 /\ old.class_type \in SaveRoles =>
                        new = [old EXCEPT !.inputs.filename_prefix = new.inputs.filename_prefix]

C3_Witness ==
    /\ patchCall.done /\ ~patchCall.threw
    /\ \E id, other \in DOMAIN patchCall.workflow :
          /\ patchCall.value[id] # patchCall.workflow[id]
          /\ patchCall.workflow[other].class_type = "KSampler"
          /\ Truthy(patchCall.workflow[other].inputs.image)
          /\ Truthy(patchCall.workflow[other].inputs.filename_prefix)

\* C4: after a patch with asset name webcam_input.jpg every SaveGLB node with a
\* filename_prefix input has the prefix mesh/webcam_3d_mesh, and every
\* ImageInput node with an image input has the image webcam_input.jpg.
C4_MeshOutputNaming ==
    (patchCall.done /\ ~patchCall.threw /\ patchCall.imageName = "webcam_input.jpg") =>
        \A id \in DOMAIN patchCall.workflow :
            LET old == patchCall.workflow[id]
                new == patchCall.value[id]
            IN /\ (old.class_type = "SaveGLB" /\ Truthy(old.inputs.filename_prefix)) =>
                      new.inputs.filename_prefix = "mesh/webcam_3d_mesh"
               /\ (old.class_type = "ImageInput" /\ Truthy(old.inputs.image)) =>
                      new.inputs.image = "webcam_input.jpg"

\* C5: after a patch every image-role node with an image input has the asset
\* name as its image, and every SaveImage node with a filename_prefix input has
\* the fixed output prefix.
C5_InputAndSaveRewriting ==
    (patchCall.done /\ ~patchCall.threw) =>
        \A id \in DOMAIN patchCall.workflow :
            LET old == patchCall.workflow[id]
                new == patchCall.value[id]
            IN /\ (old.class_type \in ImageRoles /\ Truthy(old.inputs.image)) =>
                      new.inputs.image = patchCall.imageName
               /\ (old.class_type = "SaveImage" /\ Truthy(old.inputs.filename_prefix)) =>
                      new.inputs.filename_prefix = OUTPUT_PREFIX

\* C6: with an empty template no dispatch task ever exists (so no health probe
\* and no POST), and every request with valid imageData whose file write does
\* not fail writes the asset and is answered 200, success, comfyui_enabled false.
C6_DisabledDispatch ==
    ~TemplateLoaded(loadedTemplate) =>
        /\ tasks = <<>>
        /\ \A r \in DOMAIN reqs :
              (IsValidImageData(reqs[r].imageData) /\ ~reqs[r].writeFailed) =>
                  /\ reqs[r].wrote /\ inputFile.exists
                  /\ ~reqs[r].scheduled
                  /\ reqs[r].responses = <<Response(200, TRUE, FALSE, "")>>

C6_Witness ==
    /\ ~TemplateLoaded(loadedTemplate)
    /\ Len(reqs) = 2
    /\ \A r \in DOMAIN reqs : reqs[r].wrote

\* C7: a non-success answer to POST /prompt ends the call with a not-accepted
\* result whose error is the API error and contains the response body.
C7_RemoteRejection ==
    \A t \in DOMAIN tasks :
        LET k == tasks[t]
        IN (k.pc = "done" /\ Settled(k.response) /\ ~k.response.rejected
              /\ ~Ok(k.response.status)) =>
               /\ k.result.returned /\ ~k.result.success
               /\ k.result.error[1] = "ComfyUI API error: "
               /\ \E i \in DOMAIN k.result.error : k.result.error[i] = k.response.body

\* C8: each save request has at most one task, and a task issues at most one
\* health probe and at most one POST, whatever its outcome.
C8_NoRetry ==
    /\ \A t \in DOMAIN tasks : tasks[t].healthProbes <= 1 /\ tasks[t].posts <= 1
    /\ \A t, u \in DOMAIN tasks : tasks[t].req = tasks[u].req => t = u
    /\ \A t \in DOMAIN tasks :
          tasks[t].pc = "done" => tasks[t].healthProbes = 1 /\ Len(tasks[t].logged) = 1

C8_Witness ==
    \E t, u \in DOMAIN tasks :
        /\ tasks[t].pc = "done" /\ ~tasks[t].result.success /\ tasks[t].posts = 1
        /\ tasks[u].pc = "done" /\ ~tasks[u].result.success /\ tasks[u].posts = 0

\* The requests that registered a timer, in order.
ScheduledReqs == SelectSeq([r \in DOMAIN reqs |-> r], LAMBDA r : reqs[r].scheduled)

\* The tasks are those of the requests that registered a timer, one each, and
\* with a template loaded these are the requests answered 200.
C9_TasksMatchSaves ==
    /\ [t \in DOMAIN tasks |-> tasks[t].req] = ScheduledReqs
    /\ TemplateLoaded(loadedTemplate) =>
          \A r \in DOMAIN reqs : reqs[r].scheduled <=> reqs[r].responses[1].status = 200

\* A step keeps every task; a new request leaves the existing tasks as they
\* are; a task leaves the timer only by starting its dispatch.
C9_TasksKept ==
    \A t \in DOMAIN tasks :
        /\ t \in DOMAIN tasks'
        /\ tasks'[t].req = tasks[t].req /\ tasks'[t].due = tasks[t].due
        /\ Len(reqs') > Len(reqs) => tasks'[t] = tasks[t]
        /\ (tasks[t].pc = "timer" /\ tasks'[t].pc # "timer") =>
               tasks'[t].pc = "health" /\ tasks'[t].healthProbes = 1

\* C9: with a template loaded every successful save has exactly one task of
\* its own; a later save neither cancels nor replaces a pending task; and every
\* task registered fires.
C9_OneTaskPerCapture ==
    /\ []C9_TasksMatchSaves
    /\ [][C9_TasksKept]_vars
    /\ \A t \in 1..MaxSaves :
          [](t \in DOMAIN tasks => <>(t \in DOMAIN tasks /\ tasks[t].pc # "timer"))

C9_Witness ==
    /\ Len(tasks) = 2
    /\ \A t \in DOMAIN tasks : tasks[t].pc = "health"
    /\ tasks[1].due < tasks[2].due

\* Every request handled has its one response, and a task's request was
\* answered 200 before the task existed.
C10_Responded ==
    /\ \A r \in DOMAIN reqs : Len(reqs[r].responses) = 1
    /\ \A t \in DOMAIN tasks :
          /\ tasks[t].req \in DOMAIN reqs
          /\ reqs[tasks[t].req].responses = <<Response(200, TRUE, TRUE, "")>>

\* No step changes or adds to the responses of a request already handled.
C10_ResponsesKept ==
    \A r \in DOMAIN reqs : r \in DOMAIN reqs' /\ reqs'[r].responses = reqs[r].responses

\* C10: the response of a save request is sent before the health probe and
\* the POST of its dispatch, and no later step, whatever the dispatch outcome,
\* produces another response or changes the one sent.
C10_ResponsePrecedesDispatch ==
    /\ []C10_Responded
    /\ [][C10_ResponsesKept]_vars

C10_Witness ==
    \E t \in DOMAIN tasks :
        /\ tasks[t].pc = "done" /\ ~tasks[t].result.success
        /\ reqs[tasks[t].req].responses = <<Response(200, TRUE, TRUE, "")>>

\* C11: a save request whose imageData is missing is answered 400 with the
\* error payload and changes nothing: the asset file is not written by it and
\* no deferred task is registered for it.
C11_InvalidCapture ==
    \A r \in DOMAIN reqs :
        ~Truthy(reqs[r].imageData) =>
            /\ reqs[r].responses = <<Response(400, FALSE, FALSE, "Missing imageData")>>
            /\ ~reqs[r].wrote /\ ~reqs[r].scheduled
            /\ inputFile.writer # r
            /\ \A t \in DOMAIN tasks : tasks[t].req # r

\* An invalid request arrived after a valid one, with a template loaded: the
\* file and the pending task are those of the earlier request.
C11_Witness ==
    /\ TemplateLoaded(workflowTemplate)
    /\ Len(reqs) = 2 /\ reqs[1].wrote /\ ~Truthy(reqs[2].imageData)
    /\ inputFile.exists /\ inputFile.writer = 1
    /\ Len(tasks) = 1

\* C12: a save request whose write fails is answered 500, not with the success
\* payload, and no deferred task is registered for it, template or not.
C12_WriteFailure ==
    \A r \in DOMAIN reqs :
        reqs[r].writeFailed =>
            /\ reqs[r].responses = <<Response(500, FALSE, FALSE, "Failed to save frame")>>
            /\ ~reqs[r].scheduled
            /\ \A t \in DOMAIN tasks : tasks[t].req # r

C12_Witness ==
    /\ TemplateLoaded(workflowTemplate)
    /\ \E r \in DOMAIN reqs : reqs[r].writeFailed /\ Truthy(reqs[r].imageData)
    /\ tasks = <<>>

\* The names of the folder that end in .glb in some letter case.
GlbExtensions == {".glb", ".GLB", ".Glb"}
MatchingNames(dir) == {n \in DOMAIN dir.files : n.ext \in GlbExtensions}

\* C13: the sequence findGLBFiles returns, and GET /models sends, is ordered
\* by modification time descending: i < j implies modified[i] >= modified[j].
C13_ArtifactOrdering ==
    /\ \A i, j \in DOMAIN indexCall.files :
          i < j => indexCall.files[i].modified >= indexCall.files[j].modified
    /\ \A i, j \in DOMAIN indexCall.response.models :
          i < j => indexCall.response.models[i].modified
                      >= indexCall.response.models[j].modified

\* Three files whose readdir order is oldest first are listed newest first.
C13_Witness ==
    /\ indexCall.kind = "models" /\ ~indexCall.failed
    /\ Len(indexCall.response.models) = 3
    /\ meshDir.files[FileNames[1]] < meshDir.files[FileNames[2]]
    /\ meshDir.files[FileNames[2]] < meshDir.files[FileNames[4]]
    /\ indexCall.response.models[1].name = FileNames[4]
    /\ indexCall.response.models[3].name = FileNames[1]

\* C14: when the folder does not exist or holds no matching file, the scan
\* returns the empty sequence without raising, GET /models answers success
\* with count 0, and GET /latest-model answers 200 with success false and a
\* message, not an error status.
C14_EmptyDirectorySafety ==
    (indexCall.kind # "none" /\ (~meshDir.exists \/ MatchingNames(meshDir) = {})) =>
        /\ indexCall.files = <<>>
        /\ indexCall.response.status = 200
        /\ "error" \notin indexCall.response.fields
        /\ indexCall.kind = "models" =>
              /\ indexCall.response.success
              /\ indexCall.response.models = <<>> /\ indexCall.response.count = 0
        /\ indexCall.kind = "latest" =>
              /\ ~indexCall.response.success
              /\ "message" \in indexCall.response.fields
              /\ indexCall.response.message = "No GLB models found"

\* GET /latest-model with the folder absent, after an earlier request.
C14_Witness ==
    /\ ~meshDir.exists
    /\ indexCall.kind = "latest" /\ indexCall.previous.done
    /\ indexCall.response.status = 200 /\ ~indexCall.response.success

\* The names a request listed, and whether what it returned is the folder's
\* matching files as they are now, each with its present mtime.
ListedNames(call) == {call.files[i].name : i \in DOMAIN call.files}

ListsTheFolder(call) ==
    /\ ListedNames(call) = MatchingNames(meshDir)
    /\ \A i \in DOMAIN call.files :
          call.files[i].modified = meshDir.files[call.files[i].name]
    /\ call.kind = "models" => call.response.models = call.files
    /\ (call.kind = "latest" /\ MatchingNames(meshDir) # {}) =>
          /\ call.response.success /\ Len(call.response.model) = 1
          /\ call.response.model[1].name \in MatchingNames(meshDir)
          /\ \A n \in MatchingNames(meshDir) :
                meshDir.files[n] <= call.response.model[1].modified

\* C15 as stated: every request returns exactly the entries present in the
\* folder at that time whose name matches .glb in any letter case, whatever
\* the earlier requests were; so a file the compute service added is in the
\* next listing, and a newest file added is the next latest model.
C15_NoCaching ==
    indexCall.kind # "none" => ListsTheFolder(indexCall)

\* C15 amended: that holds of every request whose readdirSync and statSync
\* calls all return; a request in which one of them throws returns the empty
\* sequence.
C15_NoCachingUnlessScanFails ==
    indexCall.kind # "none" =>
        /\ ~indexCall.failed => ListsTheFolder(indexCall)
        /\ indexCall.failed => indexCall.files = <<>>

\* A listing that holds a file the previous listing did not, written with an
\* upper-case extension, beside a file of another extension that is left out.
C15_Witness ==
    /\ indexCall.kind = "models" /\ ~indexCall.failed
    /\ indexCall.previous.done /\ ~indexCall.previous.failed
    /\ indexCall.previous.names # {}
    /\ \E n \in ListedNames(indexCall) \ indexCall.previous.names : n.ext = ".GLB"
    /\ \E n \in DOMAIN meshDir.files : n.ext = ".txt" /\ n \notin ListedNames(indexCall)

\* C16: GET /latest-model answers with the first element of the listing its
\* scan returned when that listing is not empty, so no listed artifact is
\* strictly newer than it, and answers "no model" exactly when the listing is
\* empty.
C16_LatestIsHead ==
    indexCall.kind = "latest" =>
        /\ indexCall.files # <<>> =>
              /\ indexCall.response.success
              /\ indexCall.response.model = <<indexCall.files[1]>>
              /\ \A i \in DOMAIN indexCall.files :
                    indexCall.files[i].modified <= indexCall.response.model[1].modified
        /\ indexCall.files = <<>> <=>
              (~indexCall.response.success /\ indexCall.response.model = Null)

\* Three files listed, the newest of them second in readdir order.
C16_Witness ==
    /\ indexCall.kind = "latest" /\ Len(indexCall.files) = 3
    /\ indexCall.response.model # Null
    /\ indexCall.response.model[1].name = FileNames[2]
    /\ \A n \in MatchingNames(meshDir) \ {FileNames[2]} :
          meshDir.files[n] < meshDir.files[FileNames[2]]

HealthOk(task) ==
    Settled(task.healthCheck) /\ ~task.healthCheck.rejected /\ Ok(task.healthCheck.status)

PostOk(task) ==
    Settled(task.response) /\ ~task.response.rejected /\ Ok(task.response.status)

PostRejected(task) == Settled(task.response) /\ task.response.rejected

PostRefused(task) ==
    Settled(task.response) /\ ~task.response.rejected /\ ~Ok(task.response.status)

\* C18: a call whose health probe succeeded and whose POST failed at transport
\* level (connection failure, timeout) returns success = false with the
\* transport error of the POST, and that error differs from the error of every
\* call whose health probe failed and of every call whose POST was answered
\* with a non-success status.
C18_TransportFailure ==
    \A t \in DOMAIN tasks :
        (tasks[t].pc = "done" /\ HealthOk(tasks[t]) /\ PostRejected(tasks[t])) =>
            /\ tasks[t].result.returned /\ ~tasks[t].result.success
            /\ tasks[t].result.error \in {FetchError(PROMPT), TimeoutError(PROMPT)}
            /\ \A u \in DOMAIN tasks :
                  (tasks[u].pc = "done" /\ (HealthFailed(tasks[u]) \/ PostRefused(tasks[u]))) =>
                      tasks[u].result.error # tasks[t].result.error

\* A POST that failed at transport level beside a health probe that was
\* rejected at transport level too.
C18_Witness ==
    \E t, u \in DOMAIN tasks :
        /\ tasks[t].pc = "done" /\ HealthOk(tasks[t]) /\ PostRejected(tasks[t])
        /\ tasks[u].pc = "done" /\ tasks[u].healthCheck.rejected

\* C19: a call that waits for the health probe or the POST can always be ended
\* by the expiry of its timeout, whatever the compute service does, so no
\* dispatch stays in flight forever.
C19_BoundedWaiting ==
    \A t \in DOMAIN tasks :
        tasks[t].pc \in {"health", "post"} => ENABLED FetchTimeout(t)

\* C20: two calls that reached the POST sent different client_id values, also
\* when both POSTs were built at the same clock reading.
C20_ClientIdUnique ==
    \A t, u \in DOMAIN tasks :
        (t # u /\ tasks[t].posts > 0 /\ tasks[u].posts > 0) =>
            tasks[t].client_id # tasks[u].client_id

\* The successful captures so far, and the most recent of them.
SuccessfulCaptures == {r \in DOMAIN reqs : reqs[r].wrote}
MostRecentCapture == CHOOSE r \in SuccessfulCaptures : \A q \in SuccessfulCaptures : q <= r

\* Every job posted names the one asset file in its image-loading nodes.
C21_FixedName ==
    \A t \in DOMAIN tasks :
        tasks[t].posts > 0 =>
            \A id \in DOMAIN tasks[t].prompt :
                LET node == tasks[t].prompt[id]
                IN (~node.isNull /\ node.class_type \in ImageRoles
                      /\ node.inputs.present /\ Truthy(node.inputs.image)) =>
                       node.inputs.image = INPUT_FILENAME

\* The step that issues a task's POST finds the asset file holding what the
\* most recent successful capture wrote.
C21_AssetAtPost ==
    \A t \in DOMAIN tasks :
        (t \in DOMAIN tasks' /\ tasks'[t].posts > tasks[t].posts) =>
            /\ tasks'[t].assetAtPost = inputFile
            /\ inputFile.exists /\ inputFile.writer = MostRecentCapture
            /\ inputFile.content # <<>>

C21_AssetAtPostUnlessWriteFailed ==
    \A t \in DOMAIN tasks :
        (t \in DOMAIN tasks' /\ tasks'[t].posts > tasks[t].posts) =>
            /\ tasks'[t].assetAtPost = inputFile
            /\ inputFile.exists /\ inputFile.writer >= MostRecentCapture
            /\ (\A r \in DOMAIN reqs : r > MostRecentCapture => ~reqs[r].writeFailed) =>
                  inputFile.writer = MostRecentCapture /\ inputFile.content # <<>>

AnsweredSuccess(r) ==
    /\ r \in DOMAIN reqs
    /\ reqs[r].responses = <<Response(200, TRUE, TRUE, "")>>

\* The task of request r has issued its health probe.
Submitted(r) ==
    \E t \in DOMAIN tasks : tasks[t].req = r /\ tasks[t].healthProbes = 1

\* A task is registered with the fixed delay, and its health probe is issued
\* only once that delay has elapsed, and once.
C22_AfterTheDelay ==
    /\ Len(tasks') > Len(tasks) =>
          tasks'[Len(tasks')].due = now + PROMPT_DELAY_SECONDS
    /\ \A t \in DOMAIN tasks :
          (t \in DOMAIN tasks' /\ tasks'[t].healthProbes # tasks[t].healthProbes) =>
              /\ tasks[t].healthProbes = 0 /\ tasks'[t].healthProbes = 1
              /\ now >= tasks[t].due

\* C22: with a template loaded, every save request answered with success is
\* eventually followed by exactly one invocation of queueComfyUIPrompt (its
\* health probe is issued), after the fixed delay, given that timers fire.
C22_DispatchLiveness ==
    /\ \A r \in 1..MaxSaves : [](AnsweredSuccess(r) => <>Submitted(r))
    /\ [][C22_AfterTheDelay]_vars
    /\ [](\A t, u \in DOMAIN tasks : tasks[t].req = tasks[u].req => t = u)

\* Two captures answered with success, both with their probe issued, the clock
\* past both delays.
C22_Witness ==
    /\ AnsweredSuccess(1) /\ AnsweredSuccess(2)
    /\ Submitted(1) /\ Submitted(2)
    /\ \A t \in DOMAIN tasks : now >= tasks[t].due

\* A recognized node that cannot be patched: its inputs are absent, or lack
\* the key its class is given (image, filename_prefix).
IncompleteNode(node) ==
    /\ ~node.isNull
    /\ \/ node.class_type \in ImageRoles /\
            (~node.inputs.present \/ node.inputs.image = Undefined)
       \/ node.class_type \in SaveRoles /\
            (~node.inputs.present \/ node.inputs.filename_prefix = Undefined)

\* C23: a template with an incomplete recognized node and no null node is
\* patched without error; the incomplete node comes out equal to the
\* template's node, the key not added; and the other nodes are patched: an
\* image-role node with an image gets the asset name, a SaveGLB node with a
\* filename_prefix gets an output prefix.
C23_BestEffortPatch ==
    (patchCall.done /\ \E id \in DOMAIN patchCall.workflow :
                           IncompleteNode(patchCall.workflow[id])) =>
        /\ (\A id \in DOMAIN patchCall.workflow : ~patchCall.workflow[id].isNull) =>
              ~patchCall.threw
        /\ ~patchCall.threw =>
              \A id \in DOMAIN patchCall.workflow :
                  LET old == patchCall.workflow[id]
                      new == patchCall.value[id]
                  IN /\ IncompleteNode(old) => new = old
                     /\ (old.class_type \in ImageRoles /\ old.inputs.present
                           /\ Truthy(old.inputs.image)) =>
                            new.inputs.image = patchCall.imageName
                     /\ (old.class_type = "SaveGLB" /\ old.inputs.present
                           /\ Truthy(old.inputs.filename_prefix)) =>
                            new.inputs.filename_prefix \in
                                {OUTPUT_PREFIX, MESH_FOLDER \o "/" \o OUTPUT_PREFIX}

\* A LoadImage node without inputs beside a LoadImage node that is patched,
\* and the same with a node that has inputs but no image key.
C23_Witness ==
    /\ patchCall.done /\ ~patchCall.threw
    /\ DOMAIN patchCall.workflow = {"1", "2"}
    /\ patchCall.workflow["1"].class_type = "LoadImage"
    /\ patchCall.workflow["1"].inputs.present
    /\ patchCall.workflow["1"].inputs.image = Undefined
    /\ Truthy(patchCall.workflow["1"].inputs.seed)
    /\ patchCall.value["1"] = patchCall.workflow["1"]
    /\ patchCall.workflow["2"].class_type = "LoadImage"
    /\ patchCall.workflow["2"].inputs.image = "example.png"
    /\ patchCall.value["2"].inputs.image = patchCall.imageName

\* A task is at the timer, at one of the awaits of queueComfyUIPrompt, or done;
\* a task that is done has the result queueComfyUIPrompt returned, with
\* success true or with success false and an error text, and has logged the
\* one line that goes with it.
C24_ResultAlways ==
    \A t \in DOMAIN tasks :
        /\ tasks[t].pc \in {"timer", "health", "post", "text", "json", "done"}
        /\ tasks[t].pc = "done" =>
              /\ tasks[t].result.returned
              /\ tasks[t].result.success \/ tasks[t].result.error # <<>>
              /\ tasks[t].logged =
                    <<IF tasks[t].result.success THEN "queued" ELSE "failed">>
        /\ tasks[t].pc # "done" => tasks[t].logged = <<>>

\* The stages of a call in order; a settled await moves the call forward.
Stage(pc) ==
    CASE pc = "timer" -> 0 [] pc = "health" -> 1 [] pc = "post" -> 2
      [] pc \in {"text", "json"} -> 3 [] pc = "done" -> 4 [] OTHER -> 5

\* Every step that changes a task moves it to a later stage, whatever the
\* outcome it brings.
C24_Advances ==
    \A t \in DOMAIN tasks :
        (t \in DOMAIN tasks' /\ tasks'[t] # tasks[t]) =>
            /\ Stage(tasks'[t].pc) > Stage(tasks[t].pc)
            /\ Stage(tasks'[t].pc) <= 4

\* C24: queueComfyUIPrompt never throws or rejects: whatever the health probe,
\* the patch step (a null template node included), the POST and the decoding of
\* the body come to, the call goes on to its next await or returns a result
\* with success true, or success false and an error text, and the deferred
\* task ends by logging exactly one of the two outcomes.
C24_SubmitTotal ==
    /\ []C24_ResultAlways
    /\ [][C24_Advances]_vars

\* A call ended by the TypeError of a null template node beside no POST.
C24_Witness ==
    \E t \in DOMAIN tasks :
        /\ tasks[t].pc = "done" /\ HealthOk(tasks[t]) /\ tasks[t].posts = 0
        /\ tasks[t].result.error = NullNodeError
        /\ tasks[t].logged = <<"failed">>

\* C25: a scan in which readdirSync or one statSync fails (a file removed
\* between the two, say) returns the empty sequence, not a part of the listing
\* and not an error; and the next scan that meets no failure returns the full
\* listing again.
C25_AllOrNothingScan ==
    indexCall.kind # "none" =>
        /\ indexCall.failed =>
              /\ indexCall.files = <<>>
              /\ indexCall.response.status = 200
              /\ "error" \notin indexCall.response.fields
        /\ ListedNames(indexCall) \in {{}, MatchingNames(meshDir)}
        /\ (~indexCall.failed /\ indexCall.previous.done /\ indexCall.previous.failed) =>
              /\ ListedNames(indexCall) = MatchingNames(meshDir)
              /\ Len(indexCall.files) = Cardinality(MatchingNames(meshDir))

\* A full listing of two files right after a scan that failed.
C25_Witness ==
    /\ indexCall.kind = "models" /\ ~indexCall.failed
    /\ indexCall.previous.done /\ indexCall.previous.failed
    /\ indexCall.previous.names = {}
    /\ Len(indexCall.files) = 2

====
